---- MODULE Spec2Model ----
(***************************************************************************)
(* Model of the mynitor Python SDK (src/python/mynitor/__init__.py).       *)
(*                                                                         *)
(* Part I  - the event dispatcher: Mynitor._send_event (submit),           *)
(*           Mynitor.flush, Mynitor._do_send_request and the               *)
(*           ThreadPoolExecutor they drive, called from several threads.   *)
(*           Specification: Spec (FairSpec adds the scheduler's fairness). *)
(* Part II - the instrumentation installers instrument_openai,             *)
(*           instrument_anthropic and instrument_gemini, the wrappers they *)
(*           install, and the monitor scope. Specification: WrapSpec.      *)
(* Part III - construction in an environment and the normal exit of the   *)
(*           process (_setup_auto_flush, atexit). Specification: ExitSpec. *)
(* Part IV - the command line, run() of src/python/mynitor/__main__.py.    *)
(*           Specification: CliSpec.                                       *)
(***************************************************************************)
EXTENDS Integers, Sequences, FiniteSets, TLC

\* ------------------------------------------------------------------------
\* Bounds of the model
\* ------------------------------------------------------------------------
MaxEvents == 2      \* submit calls made in one behaviour
MaxFlush == 3       \* flush calls made in one behaviour
MaxBurst == 6       \* submit calls made in one behaviour of LoadSpec

\* Program constant: ThreadPoolExecutor(max_workers=5)
max_workers == 5

Threads == {1, 2}
Events == 1..MaxEvents
Burst == 1..MaxBurst
Pools == 1..(MaxFlush + 1)          \* the constructor's pool, one more per flush
\* what requests.post(..., timeout=5) does: a 2xx response, another response,
\* a connection error, a timeout
PostOutcomes == {"ok", "non2xx", "neterror", "timeout"}
FlushPcs == {"flush_chk", "flush_wait", "flush_new", "flush_ret"}

VARIABLES
    executor,   \* self._executor: the pool the client currently refers to
    npools,     \* pools created so far (pool ids are 1..npools)
    shut,       \* shut[p]: ThreadPoolExecutor._shutdown of pool p
    queue,      \* queue[p]: work items of pool p not yet picked by a worker
    inflight,   \* inflight[p]: events whose POST a worker of p is performing
    estate,     \* estate[e]: "new", "dropped", "queued", "inflight", and once
                \* the attempt ended "delivered" (2xx) or "failed"; its
                \* domain is the set of events of the behaviour
    posts,      \* posts[e]: requests.post calls made for event e
    nsub,       \* submit calls started
    nflush,     \* flush calls started
    pc,         \* pc[t]: where thread t is in submit or flush
    tgt,        \* tgt[t]: the pool thread t read from self._executor (0: none)
    cur,        \* cur[t]: the event of thread t's submit call (0: none)
    snap,       \* snap[t]: events accepted and unfinished when t called flush
    expired,    \* expired[t]: the timeout given to t's flush call has elapsed
    fresh,      \* fresh[t]: no flush call overlapped t's submit call so far
    ret,        \* ret[t]: how t's last call ended: "returned" or "raised"
    entry,      \* entry[ep]: the callable installed at entry point ep
    napply,     \* napply[v]: instrument_<v> calls made on the client of vendor v
    workflow_id, \* self.workflow_id: the client's configured workflow, or None
    last,       \* the call the application has just made (an instrument_*
                \* call, a wrapped invocation, a monitor scope) as observed
    env,        \* env[k]: os.getenv(k) when the client was constructed
    atexit,     \* self.flush is registered with atexit
    phase,      \* "running", "exiting" (normal interpreter exit), "ended"
    exitflush,  \* the flush run by atexit: "none", "running", "done"
    cli         \* one run of `python3 -m mynitor`: inputs, position, result

dvars == <<executor, npools, shut, queue, inflight, estate, posts, nsub, nflush,
           pc, tgt, cur, snap, expired, fresh, ret>>

wvars == <<entry, napply, workflow_id, last>>

xvars == <<env, atexit, phase, exitflush, cli>>

vars == <<dvars, wvars, xvars>>

\* ------------------------------------------------------------------------
\* Pure parts of the dispatcher
\* ------------------------------------------------------------------------

\* ThreadPoolExecutor.submit as called at __init__.py:410: a pool that was shut
\* down raises RuntimeError, any other pool takes the work item.
ExecutorSubmit(isShutdown) ==
    IF isShutdown THEN "RuntimeError" ELSE "accepted"

\* Mutant: _send_event without its try/except around the pool's submit.
_send_event_no_except(isShutdown) ==
    LET r == ExecutorSubmit(isShutdown) IN
    [accepted |-> r = "accepted",
     outcome  |-> IF r = "accepted" THEN "returned" ELSE "raised"]

\* Mynitor._send_event: the event is handed to the pool; an exception of the
\* pool's submit is caught and passed over.
_send_event(isShutdown) ==
    LET r == ExecutorSubmit(isShutdown) IN
    [accepted |-> r = "accepted", outcome |-> "returned"]

\* Mutant: _do_send_request that posts again when the attempt failed.
_do_send_request_retry(post) ==
    [outcome |-> "returned", again |-> post # "ok"]

\* Mynitor._do_send_request: one requests.post; whatever it does (a response
\* of any status, or an exception) the work item ends, nothing is raised and
\* nothing is posted again.
_do_send_request(post) ==
    [outcome |-> "returned", again |-> FALSE]

Finished(e) == estate[e] \in {"delivered", "failed"}

Accepted(e) == estate[e] \in {"queued", "inflight", "delivered", "failed"}

FlushActive == \E t \in Threads : pc[t] \in FlushPcs /\ pc[t] # "flush_ret"

\* ------------------------------------------------------------------------
\* Init: Mynitor.__init__ has run
\* ------------------------------------------------------------------------
DInit ==
    /\ executor = 1
    /\ npools = 1
    /\ shut = [p \in Pools |-> FALSE]
    /\ queue = [p \in Pools |-> <<>>]
    /\ inflight = [p \in Pools |-> {}]
    /\ estate = [e \in Events |-> "new"]
    /\ posts = [e \in Events |-> 0]
    /\ nsub = 0
    /\ nflush = 0
    /\ pc = [t \in Threads |-> "idle"]
    /\ tgt = [t \in Threads |-> 0]
    /\ cur = [t \in Threads |-> 0]
    /\ snap = [t \in Threads |-> {}]
    /\ expired = [t \in Threads |-> FALSE]
    /\ fresh = [t \in Threads |-> FALSE]
    /\ ret = [t \in Threads |-> "none"]

\* ------------------------------------------------------------------------
\* submit: Mynitor._send_event
\* ------------------------------------------------------------------------

\* The caller enters _send_event and reads self._executor (lines 394-410).
SubmitCall(t) ==
    /\ pc[t] = "idle"
    /\ nsub < Cardinality(DOMAIN estate)
    /\ nsub' = nsub + 1
    /\ cur' = [cur EXCEPT ![t] = nsub + 1]
    /\ tgt' = [tgt EXCEPT ![t] = executor]
    /\ fresh' = [fresh EXCEPT ![t] = ~FlushActive]
    /\ pc' = [pc EXCEPT ![t] = "submit_rd"]
    /\ ret' = [ret EXCEPT ![t] = "none"]
    /\ UNCHANGED <<xvars, wvars, executor, npools, shut, queue, inflight, estate, posts,
                   nflush, snap, expired>>

\* The pool read is asked to take the work item (line 410) and _send_event
\* ends; no request is made on the caller's thread.
SubmitDispatch(t) ==
    /\ pc[t] = "submit_rd"
    /\ LET r == _send_event(shut[tgt[t]]) IN
        /\ estate' = [estate EXCEPT ![cur[t]] =
                         IF r.accepted THEN "queued" ELSE "dropped"]
        /\ queue' = IF r.accepted
                    THEN [queue EXCEPT ![tgt[t]] = Append(@, cur[t])]
                    ELSE queue
        /\ ret' = [ret EXCEPT ![t] = r.outcome]
    /\ pc' = [pc EXCEPT ![t] = "submit_ret"]
    /\ UNCHANGED <<xvars, wvars, executor, npools, shut, inflight, posts, nsub, nflush,
                   tgt, cur, snap, expired, fresh>>

\* ------------------------------------------------------------------------
\* flush: Mynitor.flush
\* ------------------------------------------------------------------------

\* flush(timeout) is called; `if self._executor:` holds, the attribute is never
\* None (line 41).
FlushCall(t) ==
    /\ pc[t] = "idle"
    /\ nflush < MaxFlush
    /\ nflush' = nflush + 1
    /\ snap' = [snap EXCEPT ![t] =
                   {e \in DOMAIN estate : estate[e] \in {"queued", "inflight"}}]
    /\ expired' = [expired EXCEPT ![t] = FALSE]
    /\ fresh' = [u \in Threads |-> FALSE]
    /\ pc' = [pc EXCEPT ![t] = "flush_chk"]
    /\ ret' = [ret EXCEPT ![t] = "none"]
    /\ UNCHANGED <<xvars, wvars, executor, npools, shut, queue, inflight, estate, posts,
                   nsub, tgt, cur>>

\* self._executor.shutdown(wait=True), first half: the attribute is read again
\* and that pool is marked shut down (line 42).
FlushShutdown(t) ==
    /\ pc[t] = "flush_chk"
    /\ tgt' = [tgt EXCEPT ![t] = executor]
    /\ shut' = [shut EXCEPT ![executor] = TRUE]
    /\ pc' = [pc EXCEPT ![t] = "flush_wait"]
    /\ UNCHANGED <<xvars, wvars, executor, npools, queue, inflight, estate, posts, nsub,
                   nflush, cur, snap, expired, fresh, ret>>

\* shutdown(wait=True), second half: the join of the pool's workers ends once
\* every work item the pool took has run; the timeout argument is not read.
FlushJoin(t) ==
    /\ pc[t] = "flush_wait"
    /\ queue[tgt[t]] = <<>>
    /\ inflight[tgt[t]] = {}
    /\ pc' = [pc EXCEPT ![t] = "flush_new"]
    /\ UNCHANGED <<xvars, wvars, executor, npools, shut, queue, inflight, estate, posts,
                   nsub, nflush, tgt, cur, snap, expired, fresh, ret>>

\* A flush that returns without creating a new pool (what line 44 prevents).
FlushNoRearm(t) ==
    /\ pc[t] = "flush_new"
    /\ pc' = [pc EXCEPT ![t] = "flush_ret"]
    /\ ret' = [ret EXCEPT ![t] = "returned"]
    /\ UNCHANGED <<xvars, wvars, executor, npools, shut, queue, inflight, estate, posts,
                   nsub, nflush, tgt, cur, snap, expired, fresh>>

\* self._executor = ThreadPoolExecutor(max_workers=5) (line 44); flush returns.
FlushRearm(t) ==
    /\ pc[t] = "flush_new"
    /\ npools' = npools + 1
    /\ executor' = npools + 1
    /\ pc' = [pc EXCEPT ![t] = "flush_ret"]
    /\ ret' = [ret EXCEPT ![t] = "returned"]
    /\ UNCHANGED <<xvars, wvars, shut, queue, inflight, estate, posts, nsub, nflush, tgt,
                   cur, snap, expired, fresh>>

\* The caller of submit or flush goes on.
Return(t) ==
    /\ pc[t] \in {"submit_ret", "flush_ret"}
    /\ pc' = [pc EXCEPT ![t] = "idle"]
    /\ tgt' = [tgt EXCEPT ![t] = 0]
    /\ cur' = [cur EXCEPT ![t] = 0]
    /\ snap' = [snap EXCEPT ![t] = {}]
    /\ expired' = [expired EXCEPT ![t] = FALSE]
    /\ fresh' = [fresh EXCEPT ![t] = FALSE]
    /\ ret' = [ret EXCEPT ![t] = "none"]
    /\ UNCHANGED <<xvars, wvars, executor, npools, shut, queue, inflight, estate, posts,
                   nsub, nflush>>

\* ------------------------------------------------------------------------
\* The pool's workers
\* ------------------------------------------------------------------------

\* Workers that stop taking work items once the client refers to another pool.
WorkerStartCurrentPool(p) ==
    /\ p = executor
    /\ queue[p] # <<>>
    /\ Cardinality(inflight[p]) < max_workers
    /\ LET e == Head(queue[p]) IN
        /\ queue' = [queue EXCEPT ![p] = Tail(@)]
        /\ inflight' = [inflight EXCEPT ![p] = @ \cup {e}]
        /\ estate' = [estate EXCEPT ![e] = "inflight"]
        /\ posts' = [posts EXCEPT ![e] = @ + 1]
    /\ UNCHANGED <<xvars, wvars, executor, npools, shut, nsub, nflush, pc, tgt, cur, snap,
                   expired, fresh, ret>>

\* A worker of pool p takes the oldest work item and _do_send_request calls
\* requests.post (line 416). A pool runs at most max_workers items at once;
\* a pool that was shut down, or that the client no longer refers to, still
\* runs the items it took.
WorkerStart(p) ==
    /\ p \in 1..npools
    /\ queue[p] # <<>>
    /\ Cardinality(inflight[p]) < max_workers
    /\ LET e == Head(queue[p]) IN
        /\ queue' = [queue EXCEPT ![p] = Tail(@)]
        /\ inflight' = [inflight EXCEPT ![p] = @ \cup {e}]
        /\ estate' = [estate EXCEPT ![e] = "inflight"]
        /\ posts' = [posts EXCEPT ![e] = @ + 1]
    /\ UNCHANGED <<xvars, wvars, executor, npools, shut, nsub, nflush, pc, tgt, cur, snap,
                   expired, fresh, ret>>

\* requests.post ends, with a response or an exception, and _do_send_request
\* returns (lines 415-418).
WorkerFinish(p, e) ==
    /\ p \in 1..npools
    /\ e \in inflight[p]
    /\ \E post \in PostOutcomes :
        LET r == _do_send_request(post) IN
        /\ inflight' = [inflight EXCEPT ![p] = @ \ {e}]
        /\ IF r.again
           THEN /\ queue' = [queue EXCEPT ![p] = Append(@, e)]
                /\ estate' = [estate EXCEPT ![e] = "queued"]
           ELSE /\ queue' = queue
                /\ estate' = [estate EXCEPT ![e] =
                                 IF post = "ok" THEN "delivered" ELSE "failed"]
    /\ UNCHANGED <<xvars, wvars, executor, npools, shut, posts, nsub, nflush, pc, tgt, cur,
                   snap, expired, fresh, ret>>

\* Time passes: the timeout that t gave to flush elapses while its flush is
\* still waiting for a POST that is on the network (the caller chooses the
\* timeout, and a POST may take as long as its own timeout of 5 seconds).
TimeoutElapses(t) ==
    /\ pc[t] = "flush_wait"
    /\ inflight[tgt[t]] # {}
    /\ ~expired[t]
    /\ expired' = [expired EXCEPT ![t] = TRUE]
    /\ UNCHANGED <<xvars, wvars, executor, npools, shut, queue, inflight, estate,
                   posts, nsub, nflush, pc, tgt, cur, snap, fresh, ret>>

DNext ==
    \/ \E t \in Threads : SubmitCall(t)
    \/ \E t \in Threads : SubmitDispatch(t)
    \/ \E t \in Threads : FlushCall(t)
    \/ \E t \in Threads : FlushShutdown(t)
    \/ \E t \in Threads : FlushJoin(t)
    \/ \E t \in Threads : FlushRearm(t)
    \/ \E t \in Threads : Return(t)
    \/ \E p \in Pools : WorkerStart(p)
    \/ \E p \in Pools, e \in Events : WorkerFinish(p, e)
    \/ \E t \in Threads : TimeoutElapses(t)

\* ========================================================================
\* Part II: the installers, the wrappers they install, the monitor scope
\* ========================================================================

\* Bound: instrument_<vendor> calls made on one client
MaxApply == 2

Vendors == {"openai", "anthropic", "google"}
EPs == {"openai.create", "anthropic.create",
        "gemini.generate_content", "gemini.generate_content_async"}
\* The agent argument of the n-th instrument_* call on a client: the default
\* first, another one on every later call.
AgentArg(n) == IF n = 0 THEN "default-agent" ELSE "bot"

\* ---- Python values ------------------------------------------------------
NoneObj == [kind |-> "none"]            \* None, where an object is expected
None == "None"                          \* None, where a string is expected
Obj(attrs) == [kind |-> "obj", attrs |-> attrs]
NoAttrs == [a \in {} |-> NoneObj]

\* An exception object: type(e).__name__, str(e), isinstance(e, Exception).
Exc(cls, msg, isException) ==
    [kind |-> "exc", cls |-> cls, msg |-> msg, isException |-> isException]
TypeName(e) == e.cls
Str(e) == e.msg

ConnErr == Exc("ConnectionError", "connection refused", TRUE)
\* asyncio.CancelledError and KeyboardInterrupt derive from BaseException only
Cancelled == Exc("CancelledError", "", FALSE)
PropErr == Exc("ValueError", "usage is not available", TRUE)
PoolErr == Exc("RuntimeError", "cannot schedule new futures after shutdown", TRUE)

Returned(v) == [kind |-> "return", value |-> v]
Raised(e) == [kind |-> "raise", exc |-> e]
Exit == [kind |-> "exit"]

\* An attribute whose access raises something other than AttributeError.
RaisingAttr == [kind |-> "raises", exc |-> PropErr]

\* Provider responses. Each vendor's client answers in its own shape; a
\* response may carry no usage, usage None, or a usage attribute that raises.
RespOpenAI ==
    Obj([usage |-> Obj([prompt_tokens |-> 150, completion_tokens |-> 450])])
RespAnthropic ==
    Obj([usage |-> Obj([input_tokens |-> 12, output_tokens |-> 34])])
RespGemini ==
    Obj([usage_metadata |->
            Obj([prompt_token_count |-> 7, candidates_token_count |-> 9])])
RespNoUsage == Obj([text |-> NoneObj])
RespUsageNone == Obj([usage |-> NoneObj, usage_metadata |-> NoneObj])
RespRaises == Obj([usage |-> RaisingAttr, usage_metadata |-> RaisingAttr])
\* What calling an `async def` without awaiting it returns.
Coroutine(name) == [kind |-> "coroutine", of |-> name, attrs |-> NoAttrs]

\* getattr(obj, name, default): the default stands in for a missing attribute
\* only; an attribute that raises anything else raises through getattr.
Getattr(obj, name, default) ==
    IF name \in DOMAIN obj.attrs THEN obj.attrs[name] ELSE default

\* ---- callables ------------------------------------------------------------
Absent == [kind |-> "absent"]
Original(ep, isasync) == [kind |-> "orig", name |-> ep, isasync |-> isasync]
\* A patched_create / patched_method closure: what it captured, and the
\* _is_mynitor_wrapped marker set on it right after it is installed.
Patched(provider, isasync, agent, workflow, target) ==
    [kind |-> "patched", provider |-> provider, isasync |-> isasync,
     agent |-> agent, workflow |-> workflow, target |-> target,
     marked |-> TRUE]

\* getattr(original, "_is_mynitor_wrapped", False) (lines 174, 228, 307)
is_mynitor_wrapped(c) ==
    IF "marked" \in DOMAIN c THEN c.marked ELSE FALSE

VendorOf(ep) ==
    CASE ep = "openai.create" -> "openai"
      [] ep = "anthropic.create" -> "anthropic"
      [] OTHER -> "google"

\* The vendor-specific names the adapters read.
UsageAttr(provider) ==
    IF provider = "google" THEN "usage_metadata" ELSE "usage"
InputAttr(provider) ==
    CASE provider = "openai" -> "prompt_tokens"
      [] provider = "anthropic" -> "input_tokens"
      [] OTHER -> "prompt_token_count"
OutputAttr(provider) ==
    CASE provider = "openai" -> "completion_tokens"
      [] provider = "anthropic" -> "output_tokens"
      [] OTHER -> "candidates_token_count"

\* ---- telemetry steps --------------------------------------------------------

\* ---- strings ------------------------------------------------------------
\* A string is the sequence of its pieces, the separators "/" and "." being
\* pieces of their own: "app/billing.py" is <<"app", "/", "billing", ".", "py">>.
\* The empty string is <<>>. NoStr is None where a string may stand.
NoStr == <<"(None)">>
Truthy(x) == x # NoStr /\ x # <<>>

\* The positions of piece c in string x.
Positions(x, c) == {i \in 1..Len(x) : x[i] = c}
Last(S) == CHOOSE i \in S : \A j \in S : j <= i

\* os.path.basename(x): what follows the last "/".
Basename(x) ==
    IF Positions(x, "/") = {} THEN x
    ELSE SubSeq(x, Last(Positions(x, "/")) + 1, Len(x))

\* x.rsplit(".", 1)[0]: what precedes the last ".".
RsplitDot(x) ==
    IF Positions(x, ".") = {} THEN x
    ELSE SubSeq(x, 1, Last(Positions(x, ".")) - 1)

\* The frames application code may call from: file (relative to the working
\* directory) and function.
Frames ==
    { [file |-> <<"app", "/", "billing", ".", "py">>, function_name |-> "charge"],
      [file |-> <<"test_script", ".", "py">>, function_name |-> "test_func"],
      [file |-> <<"pkg", ".", "v2", "/", "run">>, function_name |-> "main"] }
\* inspect.stack() raised, or no frame outside the package was found.
StackFails == [file |-> <<>>, function_name |-> "-"]
Stacks == Frames \cup {StackFails}

\* Mynitor._get_callsite: the first frame outside the package, or {} when
\* anything in the stack walk fails.
_get_callsite(stack) ==
    IF stack = StackFails THEN [resolved |-> FALSE]
    ELSE [resolved |-> TRUE, file |-> stack.file, line_number |-> 10,
          function_name |-> stack.function_name]

\* A naming that appends the function name to the file's.
_derive_workflow_name_with_function(callsite) ==
    LET file == IF callsite.resolved THEN callsite.file ELSE <<"unknown">>
        func == IF callsite.resolved THEN callsite.function_name ELSE "unknown"
    IN RsplitDot(Basename(file)) \o <<":", func>>

\* Mynitor._derive_workflow_name: callsite.get("file", "unknown"), its base
\* name, the last extension removed. func is read and not used.
_derive_workflow_name(callsite) ==
    LET file == IF callsite.resolved THEN callsite.file ELSE <<"unknown">>
        filename == Basename(file)
    IN IF Positions(filename, ".") # {} THEN RsplitDot(filename) ELSE filename

\* workflow or self.workflow_id or self._derive_workflow_name(callsite)
\* (lines 115-116, 184-186, 236, 264, 316, 345)
CurrentWorkflow(workflow, callsite) ==
    IF Truthy(workflow) THEN workflow
    ELSE IF Truthy(workflow_id) THEN workflow_id
    ELSE _derive_workflow_name(callsite)

\* One call of _send_event(**kwargs) as its caller sees it: the payload built
\* from the keyword arguments, whether the pool took it, how the call ended.
\* `down`: the pool the call reads has been shut down by a flush that is
\* draining on another thread.
SendStep(kwargs, down) ==
    LET r == _send_event(down) IN
    [op |-> "send", event |-> [event_version |-> "1.0"] @@ kwargs,
     accepted |-> r.accepted, outcome |-> r.outcome]

\* Mynitor._handle_exception: one error event, submitted inside try/except.
_handle_exception(e, agent, workflow, provider, callsite, down) ==
    << SendStep([agent |-> agent, workflow |-> workflow, provider |-> provider,
                 status |-> "error",
                 error_type |-> TypeName(e),
                 metadata |-> {<<"error_message", Str(e)>>},
                 callsite |-> callsite], down) >>

\* The adapters' usage extraction (lines 192-194, 240-251, 320-331).
ExtractUsage(provider, response) ==
    LET usage == Getattr(response, UsageAttr(provider), NoneObj) IN
    IF usage.kind = "raises"
    THEN [ok |-> FALSE, exc |-> usage.exc]
    ELSE [ok |-> TRUE,
          input_tokens |-> IF usage.kind # "none"
                           THEN Getattr(usage, InputAttr(provider), 0) ELSE 0,
          output_tokens |-> IF usage.kind # "none"
                            THEN Getattr(usage, OutputAttr(provider), 0) ELSE 0]

\* ---- the wrappers -----------------------------------------------------------

RECURSIVE Call(_, _, _)
RECURSIVE patched_create(_, _)

\* The body of a patched_create / patched_method closure c. inp: what the
\* original does when it runs (inp.out), whether the pool is shut down
\* (inp.down), the stack the callsite is resolved from (inp.stack).
patched_create(c, inp) ==
    LET callsite == _get_callsite(inp.stack)
        current_workflow == CurrentWorkflow(c.workflow, callsite)
        inner == Call(c.target, IF c.isasync THEN "await" ELSE "call", inp)
    IN
    IF inner.res.kind = "raise"
    THEN IF inner.res.exc.isException
         THEN \* except Exception as e: _handle_exception(...); raise e
              [trace |-> inner.trace \o
                         _handle_exception(inner.res.exc, c.agent,
                                           current_workflow, c.provider,
                                           callsite, inp.down),
               res |-> Raised(inner.res.exc)]
         ELSE \* not an Exception: no handler runs
              inner
    ELSE LET x == ExtractUsage(c.provider, inner.res.value) IN
         IF ~x.ok
         THEN \* raised inside the try: handled like a failure of the call
              [trace |-> inner.trace \o
                         _handle_exception(x.exc, c.agent, current_workflow,
                                           c.provider, callsite, inp.down),
               res |-> Raised(x.exc)]
         ELSE LET s == SendStep([agent |-> c.agent,
                                 workflow |-> current_workflow,
                                 provider |-> c.provider,
                                 status |-> "success",
                                 input_tokens |-> x.input_tokens,
                                 output_tokens |-> x.output_tokens,
                                 callsite |-> callsite], inp.down)
              IN IF s.outcome = "raised"
                 THEN [trace |-> inner.trace \o <<s>> \o
                                 _handle_exception(PoolErr, c.agent,
                                                   current_workflow,
                                                   c.provider, callsite,
                                                   inp.down),
                       res |-> Raised(PoolErr)]
                 ELSE [trace |-> inner.trace \o <<s>>, res |-> inner.res]

\* Calling callable c, plainly ("call") or awaited ("await"). An `async def`
\* called without await returns a coroutine and runs nothing.
Call(c, mode, inp) ==
    IF c.kind = "orig"
    THEN LET r == IF c.isasync /\ mode = "call"
                  THEN Returned(Coroutine(c.name)) ELSE inp.out
         IN [trace |-> << [op |-> "orig", name |-> c.name,
                           ran |-> ~(c.isasync /\ mode = "call"),
                           res |-> r] >>,
             res |-> r]
    ELSE IF c.isasync /\ mode = "call"
         THEN [trace |-> <<>>, res |-> Returned(Coroutine("patched"))]
         ELSE patched_create(c, inp)

\* ---- the installers -------------------------------------------------------

\* Mynitor.instrument_openai on a client whose entry points are e.
instrument_openai(e, agent, workflow) ==
    LET original_create == e["openai.create"] IN
    IF is_mynitor_wrapped(original_create) THEN e
    ELSE [e EXCEPT !["openai.create"] =
             Patched("openai", FALSE, agent, workflow, original_create)]

\* Mynitor.instrument_anthropic; is_async is read off the client's type, which
\* is the kind of client whose create is installed.
instrument_anthropic(e, agent, workflow) ==
    LET original_create == e["anthropic.create"]
        is_async == original_create.isasync
    IN
    IF is_mynitor_wrapped(original_create) THEN e
    ELSE [e EXCEPT !["anthropic.create"] =
             Patched("anthropic", is_async, agent, workflow,
                     original_create)]

\* One turn of instrument_gemini's loop over methods_to_patch. st.cell is the
\* local variable original_method, which every closure made by this call of
\* instrument_gemini refers to; st.made are the methods patched so far.
GeminiLoopStep(st, method_name) ==
    IF st.e[method_name] = Absent THEN st                 \* not hasattr
    ELSE LET original_method == st.e[method_name] IN
         IF is_mynitor_wrapped(original_method)
         THEN [st EXCEPT !.cell = original_method]
         ELSE [st EXCEPT !.cell = original_method,
                         !.made = @ \cup {method_name}]

\* Mynitor.instrument_gemini: both turns of the loop; the closures installed
\* call whatever original_method holds when they run, which is its value
\* after the last turn.
instrument_gemini(e, agent, workflow) ==
    LET s0 == [e |-> e, cell |-> Absent, made |-> {}]
        s1 == GeminiLoopStep(s0, "gemini.generate_content")
        s2 == GeminiLoopStep(s1, "gemini.generate_content_async")
    IN [ep \in EPs |->
          IF ep \in s2.made
          THEN Patched("google", ep = "gemini.generate_content_async", agent,
                       workflow, s2.cell)
          ELSE e[ep]]

\* ---- the monitor scope --------------------------------------------------------

SetUsage(i, o) == [op |-> "set_usage", input_tokens |-> i, output_tokens |-> o]
SetRetry(n) == [op |-> "set_retry", count |-> n]
SetMetadata(k, v) == [op |-> "set_metadata", key |-> k, value |-> v]

\* dict[key] = value
SetKey(d, k, v) == {kv \in d : kv[1] # k} \cup {<<k, v>>}

\* A tracker whose first write wins: a later set_usage, set_retry or
\* set_metadata of a value already written is ignored.
Tracker_first_write(state, o) ==
    CASE o.op = "set_usage" ->
            IF state.input_tokens = 0 /\ state.output_tokens = 0
            THEN [state EXCEPT !.input_tokens = o.input_tokens,
                               !.output_tokens = o.output_tokens]
            ELSE state
      [] o.op = "set_retry" ->
            IF state.retry_count = 0
            THEN [state EXCEPT !.retry_count = o.count] ELSE state
      [] OTHER ->
            IF \E kv \in state.metadata : kv[1] = o.key THEN state
            ELSE [state EXCEPT !.metadata = @ \cup {<<o.key, o.value>>}]

\* The Tracker methods (lines 128-137).
Tracker(state, o) ==
    CASE o.op = "set_usage" ->
            [state EXCEPT !.input_tokens = o.input_tokens,
                          !.output_tokens = o.output_tokens]
      [] o.op = "set_retry" -> [state EXCEPT !.retry_count = o.count]
      [] OTHER -> [state EXCEPT !.metadata = SetKey(@, o.key, o.value)]

RECURSIVE RunBody(_, _)
RunBody(state, script) ==
    IF script = <<>> THEN state
    ELSE RunBody(Tracker(state, Head(script)), Tail(script))

\* Mynitor.monitor: the scope's body makes the tracker calls of inp.script and
\* ends as inp.body says (Exit, or Raised(e)).
monitor(agent, inp) ==
    LET callsite == _get_callsite(inp.stack)
        workflow == CurrentWorkflow(inp.workflow, callsite)
        state0 == [input_tokens |-> 0, output_tokens |-> 0, retry_count |-> 0,
                   status |-> "success", error_type |-> None, metadata |-> {}]
        state1 == RunBody(state0, inp.script)
        state2 == IF inp.body.kind = "raise" /\ inp.body.exc.isException
                  THEN [state1 EXCEPT
                          !.status = "error",
                          !.error_type = TypeName(inp.body.exc),
                          !.metadata = SetKey(@, "error_message",
                                              Str(inp.body.exc))]
                  ELSE state1
        \* finally: _send_event(...) inside try/except Exception
        s == SendStep(state2 @@ [agent |-> agent, workflow |-> workflow,
                                 provider |-> "other",
                                 callsite |-> callsite], inp.down)
    IN [trace |-> <<s>>, res |-> inp.body]

\* ---- state and actions ----------------------------------------------------

\* The workflow argument of monitor and of the instrument_* calls (None when
\* it is left out), and the workflow_id a client may be constructed with.
WorkflowArgs == {NoStr, <<"chat">>}
WorkflowIds == {NoStr, <<>>, <<"explicit-id">>}

NoCall == [kind |-> "none"]

Scripts == { <<>>,
             <<SetUsage(10, 20)>>,
             <<SetUsage(10, 20), SetUsage(1, 2)>>,
             <<SetRetry(3), SetMetadata("k", "v")>>,
             <<SetMetadata("k", "v"), SetMetadata("k", "w")>>,
             <<SetMetadata("error_message", "mine")>>,
             <<SetUsage(0 - 1, 2)>> }

VendorResp(ep) ==
    CASE ep = "openai.create" -> RespOpenAI
      [] ep = "anthropic.create" -> RespAnthropic
      [] OTHER -> RespGemini

\* What the original of entry point ep may do when it runs.
Outcomes(ep) ==
    {Returned(r) : r \in {VendorResp(ep), RespNoUsage, RespUsageNone,
                          RespRaises}}
    \cup {Raised(x) : x \in {ConnErr, Cancelled}}

RECURSIVE Bottom(_)
Bottom(c) == IF c.kind = "patched" THEN Bottom(c.target) ELSE c

\* How application code calls entry point ep: awaited on an async client.
EpMode(ep) ==
    CASE ep = "gemini.generate_content_async" -> "await"
      [] ep = "anthropic.create" ->
            IF Bottom(entry[ep]).isasync THEN "await" ELSE "call"
      [] OTHER -> "call"

\* The clients before any instrumentation: an OpenAI client, an Anthropic or
\* AsyncAnthropic client, a Gemini model with one or both of its methods.
WInit ==
    /\ \E anthAsync \in BOOLEAN, gem \in {"both", "sync", "async"} :
          entry = [ep \in EPs |->
                     CASE ep = "openai.create" -> Original(ep, FALSE)
                       [] ep = "anthropic.create" -> Original(ep, anthAsync)
                       [] ep = "gemini.generate_content" ->
                             IF gem = "async" THEN Absent
                             ELSE Original(ep, FALSE)
                       [] OTHER ->
                             IF gem = "sync" THEN Absent
                             ELSE Original(ep, TRUE)]
    /\ napply = [v \in Vendors |-> 0]
    /\ workflow_id \in WorkflowIds
    /\ last = NoCall

\* Part II at rest, for the specifications of Part I.
WIdle ==
    /\ entry = [ep \in EPs |->
                  Original(ep, ep = "gemini.generate_content_async")]
    /\ napply = [v \in Vendors |-> 0]
    /\ workflow_id = NoStr
    /\ last = NoCall

InstrumentOpenAI ==
    /\ last = NoCall
    /\ napply["openai"] < MaxApply
    /\ \E workflow \in WorkflowArgs :
          entry' = instrument_openai(entry, AgentArg(napply["openai"]), workflow)
    /\ napply' = [napply EXCEPT !["openai"] = @ + 1]
    /\ last' = [kind |-> "instrument", vendor |-> "openai",
                nth |-> napply["openai"] + 1, before |-> entry, after |-> entry']
    /\ UNCHANGED <<workflow_id, dvars, xvars>>

InstrumentAnthropic ==
    /\ last = NoCall
    /\ napply["anthropic"] < MaxApply
    /\ \E workflow \in WorkflowArgs :
          entry' = instrument_anthropic(entry, AgentArg(napply["anthropic"]), workflow)
    /\ napply' = [napply EXCEPT !["anthropic"] = @ + 1]
    /\ last' = [kind |-> "instrument", vendor |-> "anthropic",
                nth |-> napply["anthropic"] + 1, before |-> entry, after |-> entry']
    /\ UNCHANGED <<workflow_id, dvars, xvars>>

InstrumentGemini ==
    /\ last = NoCall
    /\ napply["google"] < MaxApply
    /\ \E workflow \in WorkflowArgs :
          entry' = instrument_gemini(entry, AgentArg(napply["google"]), workflow)
    /\ napply' = [napply EXCEPT !["google"] = @ + 1]
    /\ last' = [kind |-> "instrument", vendor |-> "google",
                nth |-> napply["google"] + 1, before |-> entry, after |-> entry']
    /\ UNCHANGED <<workflow_id, dvars, xvars>>

\* Application code calls entry point ep once.
Invoke(ep) ==
    /\ last = NoCall
    /\ entry[ep] # Absent
    /\ \E out \in Outcomes(ep), down \in BOOLEAN, stack \in Stacks :
          LET inp == [out |-> out, down |-> down, stack |-> stack]
              r == Call(entry[ep], EpMode(ep), inp)
          IN last' = [kind |-> "invoke", ep |-> ep,
                      wrapped |-> is_mynitor_wrapped(entry[ep]),
                      applied |-> napply[VendorOf(ep)],
                      down |-> down, stack |-> stack,
                      trace |-> r.trace, res |-> r.res]
    /\ UNCHANGED <<entry, napply, workflow_id, dvars, xvars>>

\* Application code runs one `with mn.monitor(agent=...) as tracker:` scope.
MonitorScope ==
    /\ last = NoCall
    /\ \E script \in Scripts, body \in {Exit, Raised(ConnErr), Raised(Cancelled)},
          down \in BOOLEAN, stack \in Stacks, workflow \in WorkflowArgs :
          LET inp == [script |-> script, body |-> body, down |-> down,
                      stack |-> stack, workflow |-> workflow]
              r == monitor("bot", inp)
          IN last' = [kind |-> "monitor", script |-> script, body |-> body,
                      down |-> down, stack |-> stack, workflow |-> workflow,
                      trace |-> r.trace, res |-> r.res]
    /\ UNCHANGED <<entry, napply, workflow_id, dvars, xvars>>

\* The call has ended and the application goes on.
Continue ==
    /\ last # NoCall
    /\ last' = NoCall
    /\ UNCHANGED <<entry, napply, workflow_id, dvars, xvars>>

WNext ==
    \/ Continue
    \/ InstrumentOpenAI
    \/ InstrumentAnthropic
    \/ InstrumentGemini
    \/ \E ep \in EPs : Invoke(ep)
    \/ MonitorScope

\* ========================================================================
\* Part III: construction in an environment, and normal process exit
\* ========================================================================

\* The environment variables _setup_auto_flush looks at (lines 24-29).
Markers == {"AWS_LAMBDA_FUNCTION_NAME", "VERCEL", "NETLIFY",
            "FUNCTIONS_WORKER_RUNTIME"}

NoMarkers == [k \in Markers |-> NoStr]

\* Environments a client is constructed in: no marker; one marker with a
\* value; two markers; a marker that is set to the empty string.
Envs ==
    { NoMarkers,
      [NoMarkers EXCEPT !["AWS_LAMBDA_FUNCTION_NAME"] = <<"my-fn">>],
      [NoMarkers EXCEPT !["NETLIFY"] = <<"true">>,
                        !["FUNCTIONS_WORKER_RUNTIME"] = <<"python">>],
      [NoMarkers EXCEPT !["VERCEL"] = <<"1">>],
      [NoMarkers EXCEPT !["VERCEL"] = <<>>] }

\* is_serverless = any(os.getenv(k) for k in [...]) (lines 24-29)
is_serverless(e) == \E k \in Markers : Truthy(e[k])

\* A client that never registers its flush.
_setup_auto_flush_never(e) == FALSE

\* Mynitor._setup_auto_flush: atexit.register(self.flush) unless serverless.
\* The value is whether flush is registered.
_setup_auto_flush(e) == ~is_serverless(e)

\* The CLI at rest.
CliIdle == [pc |-> "off"]

\* Part III and IV at rest, for the specifications of Parts I and II.
XIdle ==
    /\ env = NoMarkers
    /\ atexit = _setup_auto_flush(NoMarkers)
    /\ phase = "running"
    /\ exitflush = "none"
    /\ cli = CliIdle

\* Mynitor.__init__ in one of the environments (lines 16-21).
XInit ==
    /\ env \in Envs
    /\ atexit = _setup_auto_flush(env)
    /\ phase = "running"
    /\ exitflush = "none"
    /\ cli = CliIdle

\* The application has made its last call and the interpreter starts its
\* normal exit.
ProcessExit ==
    /\ phase = "running"
    /\ \A t \in Threads : pc[t] = "idle"
    /\ phase' = "exiting"
    /\ UNCHANGED <<dvars, wvars, env, atexit, exitflush, cli>>

\* atexit calls the registered self.flush, on the main thread (thread 1): the
\* entry of flush as in FlushCall; the flush then runs as any other.
AtexitFlush ==
    /\ phase = "exiting"
    /\ atexit
    /\ exitflush = "none"
    /\ exitflush' = "running"
    /\ snap' = [snap EXCEPT ![1] =
                   {e \in DOMAIN estate : estate[e] \in {"queued", "inflight"}}]
    /\ expired' = [expired EXCEPT ![1] = FALSE]
    /\ fresh' = [u \in Threads |-> FALSE]
    /\ pc' = [pc EXCEPT ![1] = "flush_chk"]
    /\ ret' = [ret EXCEPT ![1] = "none"]
    /\ UNCHANGED <<wvars, executor, npools, shut, queue, inflight, estate, posts,
                   nsub, nflush, tgt, cur, env, atexit, phase, cli>>

\* The registered flush has returned.
AtexitDone ==
    /\ phase = "exiting"
    /\ exitflush = "running"
    /\ pc[1] = "idle"
    /\ exitflush' = "done"
    /\ UNCHANGED <<dvars, wvars, env, atexit, phase, cli>>

\* The process ends: the exit handlers have run, and the interpreter has
\* joined the worker threads of every pool, which run the work items their
\* pools took before they stop.
ProcessEnd ==
    /\ phase = "exiting"
    /\ atexit => exitflush = "done"
    /\ \A p \in Pools : queue[p] = <<>> /\ inflight[p] = {}
    /\ phase' = "ended"
    /\ UNCHANGED <<dvars, wvars, env, atexit, exitflush, cli>>

\* The application calls submit and flush while the process runs; calls that
\* were started go on, the workers work, and the process exits.
ExitNext ==
    \/ \E t \in Threads : phase = "running" /\ SubmitCall(t)
    \/ \E t \in Threads : SubmitDispatch(t)
    \/ \E t \in Threads : phase = "running" /\ FlushCall(t)
    \/ \E t \in Threads : FlushShutdown(t)
    \/ \E t \in Threads : FlushJoin(t)
    \/ \E t \in Threads : FlushRearm(t)
    \/ \E t \in Threads : Return(t)
    \/ \E p \in Pools : WorkerStart(p)
    \/ \E p \in Pools, e \in Events : WorkerFinish(p, e)
    \/ ProcessExit
    \/ AtexitFlush
    \/ AtexitDone
    \/ ProcessEnd

\* ========================================================================
\* Part IV: the command line, run() of src/python/mynitor/__main__.py
\* ========================================================================

\* os.getenv(name, default): the default only when the variable is unset.
Getenv(x, default) == IF x = NoStr THEN default ELSE x

\* What MYNITOR_API_KEY and MYNITOR_API_URL may hold: unset, empty, a value.
ApiKeys == {NoStr, <<>>, <<"sk_live_1234">>}
ApiUrls == {NoStr, <<>>, <<"http://localhost:4000">>}

\* sys.argv: no command, each of the commands, a command with a further
\* argument, and a word that is no command.
Argvs ==
    { <<"mynitor">>,
      <<"mynitor", "ping">>,
      <<"mynitor", "ping", "now">>,
      <<"mynitor", "doctor">>,
      <<"mynitor", "mock">>,
      <<"mynitor", "help">> }

\* What a request of the CLI ends in: a response with a status code, or an
\* exception of requests (a timeout after 5 seconds is one of them).
StatusCodes == {200, 201, 202, 204, 301, 401, 404, 500}
NetworkErrors == {"SSLError", "ConnectionError", "Timeout"}
NoAnswer == [kind |-> "none", status_code |-> 0]
Answers ==
    {[kind |-> "response", status_code |-> s] : s \in StatusCodes}
        \cup {[kind |-> k, status_code |-> 0] : k \in NetworkErrors}

\* The endpoints the commands address (lines 19, 35, 58, 88).
DoctorEndpoint(api_url) ==
    Getenv(api_url, <<"https://app.mynitor.ai">>)
        \o <<"/api/v1/onboarding/status">>
EventsEndpoint(api_url) ==
    Getenv(api_url, <<"https://app.mynitor.ai/api/v1/events">>)

\* A ping that reports success whatever the collector answered.
ping_exit_always_zero(answer) == 0

\* The exit code of the ping command after its request (lines 106-118):
\* 0 when it falls through after a 200 or a 201, the 1 of sys.exit(1) after
\* another status and after an exception (sys.exit raises SystemExit, which
\* the except Exception of line 115 does not catch).
ping_exit(answer) ==
    IF answer.kind = "response"
       /\ (answer.status_code = 200 \/ answer.status_code = 201)
    THEN 0
    ELSE 1

\* The process of the CLI ends with an exit code: the argument of sys.exit,
\* or 0 when run() returns.
Exits(c, code) == [c EXCEPT !.pc = "exited", !.code = code]

\* run() is entered: lines 8-11, the API key is read and tested for truth.
CliCheckKey ==
    /\ cli.pc = "start"
    /\ cli' = IF ~Truthy(cli.api_key)
              THEN Exits(cli, 1)
              ELSE [cli EXCEPT !.pc = "args"]
    /\ UNCHANGED <<dvars, wvars, env, atexit, phase, exitflush>>

\* Lines 13-17: without a command the usage is printed and the exit code is 1.
CliCheckArgs ==
    /\ cli.pc = "args"
    /\ cli' = IF Len(cli.argv) < 2
              THEN Exits(cli, 1)
              ELSE [cli EXCEPT !.pc = "command", !.command = cli.argv[2]]
    /\ UNCHANGED <<dvars, wvars, env, atexit, phase, exitflush>>

\* doctor, lines 21-36: requests.get to the onboarding status.
CliDoctor ==
    /\ cli.pc = "command"
    /\ cli.command = "doctor"
    /\ cli' = [cli EXCEPT
                 !.pc = "doctor_wait",
                 !.requests = Append(@, [method |-> "GET",
                                         endpoint |-> DoctorEndpoint(cli.api_url)])]
    /\ UNCHANGED <<dvars, wvars, env, atexit, phase, exitflush>>

\* doctor, lines 37-54: every outcome is printed, and run() returns.
CliDoctorAnswer ==
    /\ cli.pc = "doctor_wait"
    /\ \E a \in Answers :
          cli' = Exits([cli EXCEPT !.answer = a], 0)
    /\ UNCHANGED <<dvars, wvars, env, atexit, phase, exitflush>>

\* mock, lines 56-75: requests.post of a mock event.
CliMock ==
    /\ cli.pc = "command"
    /\ cli.command = "mock"
    /\ cli' = [cli EXCEPT
                 !.pc = "mock_wait",
                 !.requests = Append(@, [method |-> "POST",
                                         endpoint |-> EventsEndpoint(cli.api_url)])]
    /\ UNCHANGED <<dvars, wvars, env, atexit, phase, exitflush>>

\* mock, lines 76-83: every outcome is printed, and run() returns.
CliMockAnswer ==
    /\ cli.pc = "mock_wait"
    /\ \E a \in Answers :
          cli' = Exits([cli EXCEPT !.answer = a], 0)
    /\ UNCHANGED <<dvars, wvars, env, atexit, phase, exitflush>>

\* ping, lines 85-107: requests.post of the verification event.
CliPing ==
    /\ cli.pc = "command"
    /\ cli.command = "ping"
    /\ cli' = [cli EXCEPT
                 !.pc = "ping_wait",
                 !.requests = Append(@, [method |-> "POST",
                                         endpoint |-> EventsEndpoint(cli.api_url)])]
    /\ UNCHANGED <<dvars, wvars, env, atexit, phase, exitflush>>

\* ping, lines 108-118: the answer decides the exit code.
CliPingAnswer ==
    /\ cli.pc = "ping_wait"
    /\ \E a \in Answers :
          cli' = Exits([cli EXCEPT !.answer = a], ping_exit(a))
    /\ UNCHANGED <<dvars, wvars, env, atexit, phase, exitflush>>

\* Lines 119-121: any other word prints the usage, and run() returns.
CliUnknown ==
    /\ cli.pc = "command"
    /\ cli.command \notin {"doctor", "mock", "ping"}
    /\ cli' = Exits(cli, 0)
    /\ UNCHANGED <<dvars, wvars, env, atexit, phase, exitflush>>

CliNext ==
    \/ CliCheckKey
    \/ CliCheckArgs
    \/ CliDoctor
    \/ CliDoctorAnswer
    \/ CliMock
    \/ CliMockAnswer
    \/ CliPing
    \/ CliPingAnswer
    \/ CliUnknown

\* python3 -m mynitor is started with an environment and arguments; no
\* client is constructed.
CliInit ==
    /\ DInit
    /\ WIdle
    /\ env = NoMarkers
    /\ atexit = _setup_auto_flush(NoMarkers)
    /\ phase = "running"
    /\ exitflush = "none"
    /\ \E k \in ApiKeys, u \in ApiUrls, a \in Argvs :
          cli = [pc |-> "start", api_key |-> k, api_url |-> u, argv |-> a,
                 command |-> "", requests |-> <<>>, answer |-> NoAnswer,
                 code |-> 0]

CliSpec == CliInit /\ [][CliNext]_vars

\* ------------------------------------------------------------------------
\* Specifications
\* ------------------------------------------------------------------------
Init == DInit /\ WIdle /\ XIdle

Next == DNext

Spec == Init /\ [][Next]_vars

WrapInit == DInit /\ WInit /\ XIdle

WrapSpec == WrapInit /\ [][WNext]_vars

\* ------------------------------------------------------------------------
\* Fairness: the operating system keeps scheduling threads, so a call that
\* was started and the pools' workers go on while one of them can take a
\* step, and requests.post ends (it is given timeout=5). Whether and when the
\* application calls submit or flush is left open.
\* ------------------------------------------------------------------------
Scheduled ==
    \/ \E t \in Threads : SubmitDispatch(t)
    \/ \E t \in Threads : FlushShutdown(t)
    \/ \E t \in Threads : FlushJoin(t)
    \/ \E t \in Threads : FlushRearm(t)
    \/ \E t \in Threads : Return(t)
    \/ \E p \in Pools : WorkerStart(p)
    \/ \E p \in Pools, e \in Events : WorkerFinish(p, e)

Fairness == WF_vars(Scheduled)

FairSpec == Init /\ [][Next]_vars /\ Fairness

\* ------------------------------------------------------------------------
\* LoadSpec: the dispatcher under a burst of MaxBurst events whose POSTs stay
\* on the network for the whole behaviour (a POST may take up to its timeout
\* of 5 seconds), so that more events than one pool has workers are pending.
\* ------------------------------------------------------------------------
LoadInit ==
    /\ executor = 1
    /\ npools = 1
    /\ shut = [p \in Pools |-> FALSE]
    /\ queue = [p \in Pools |-> <<>>]
    /\ inflight = [p \in Pools |-> {}]
    /\ estate = [e \in Burst |-> "new"]
    /\ posts = [e \in Burst |-> 0]
    /\ nsub = 0
    /\ nflush = 0
    /\ pc = [t \in Threads |-> "idle"]
    /\ tgt = [t \in Threads |-> 0]
    /\ cur = [t \in Threads |-> 0]
    /\ snap = [t \in Threads |-> {}]
    /\ expired = [t \in Threads |-> FALSE]
    /\ fresh = [t \in Threads |-> FALSE]
    /\ ret = [t \in Threads |-> "none"]
    /\ WIdle
    /\ XIdle

LoadNext ==
    \/ \E t \in Threads : SubmitCall(t)
    \/ \E t \in Threads : SubmitDispatch(t)
    \/ \E t \in Threads : FlushCall(t)
    \/ \E t \in Threads : FlushShutdown(t)
    \/ \E t \in Threads : FlushJoin(t)
    \/ \E t \in Threads : FlushRearm(t)
    \/ \E t \in Threads : Return(t)
    \/ \E p \in Pools : WorkerStart(p)

LoadSpec == LoadInit /\ [][LoadNext]_vars

\* ExitSpec: a client constructed in one of the environments, used, and the
\* normal exit of its process.
ExitInit == DInit /\ WIdle /\ XInit

ExitSpec == ExitInit /\ [][ExitNext]_vars

\* ------------------------------------------------------------------------
\* Claims about the dispatcher
\* ------------------------------------------------------------------------

\* C1: submit (_send_event) never raises to its caller and never waits: in
\* every dispatcher state a started submit can take its step at once, it ends
\* by returning, the caller's thread makes no request, and an event the pool
\* rejected is dropped.
C1_SubmitNeverRaisesNorWaits ==
    \A t \in Threads :
        /\ pc[t] = "submit_rd" => ENABLED SubmitDispatch(t)
        /\ pc[t] = "submit_ret" =>
              /\ ret[t] = "returned"
              /\ estate[cur[t]] # "new"
              /\ shut[tgt[t]] /\ queue[tgt[t]] = <<>> /\ inflight[tgt[t]] = {}
                 /\ posts[cur[t]] = 0 => estate[cur[t]] = "dropped"
              /\ estate[cur[t]] = "dropped" => posts[cur[t]] = 0

\* C1 witness: a submit returned normally after the pool rejected the event,
\* while a flush was still draining an attempt in flight.
C1_Witness ==
    \E t, u \in Threads :
        /\ pc[t] = "submit_ret" /\ ret[t] = "returned"
        /\ estate[cur[t]] = "dropped"
        /\ pc[u] = "flush_wait" /\ inflight[tgt[u]] # {}

\* C2 (as claimed): when flush returns before its timeout has elapsed, every
\* event accepted before that flush call started has finished its attempt.
C2_FlushWaitsForEarlierEvents ==
    \A t \in Threads :
        pc[t] = "flush_ret" /\ ~expired[t] =>
            \A e \in snap[t] : Finished(e)

\* C3 (as claimed): flush returns no later than `timeout` after it was called.
C3_FlushWithinTimeout ==
    \A t \in Threads : pc[t] = "flush_ret" => ~expired[t]

\* C4, state part: whenever no flush call is in progress the client refers to
\* a pool that is not shut down, and a submit call that no flush call
\* overlapped is accepted.
C4_RunningInv ==
    /\ ~FlushActive => ~shut[executor]
    /\ \A t \in Threads :
          pc[t] = "submit_ret" /\ fresh[t] => Accepted(cur[t])

\* C4: once every flush call has returned the dispatcher is Running with a
\* live pool; an event submitted then is accepted and eventually gets its
\* delivery attempt; a shut-down pool never stays the client's pool.
C4_ReusableAfterFlush ==
    /\ []C4_RunningInv
    /\ \A e \in Events : (estate[e] = "queued") ~> (posts[e] >= 1)
    /\ shut[executor] ~> ~shut[executor]

\* C4 witness: an event submitted after a flush had returned, with no flush in
\* progress, was taken by the re-armed pool and sent.
C4_Witness ==
    \E t \in Threads :
        /\ pc[t] = "submit_ret" /\ fresh[t]
        /\ tgt[t] > 1 /\ tgt[t] = executor
        /\ posts[cur[t]] = 1

\* C5: delivery is at-most-once: no event is ever posted twice, a finished
\* event is never queued or in flight again whatever the outcome of its
\* attempt, and no call of submit or flush ends by raising.
C5_AtMostOnce ==
    /\ \A e \in Events :
          /\ posts[e] <= 1
          /\ Finished(e) =>
                /\ posts[e] = 1
                /\ \A p \in Pools :
                      /\ e \notin inflight[p]
                      /\ \A i \in 1..Len(queue[p]) : queue[p][i] # e
    /\ \A t \in Threads : ret[t] # "raised"

\* C5 witness: an attempt failed, its one POST was made, and the flush that
\* waited for it returned normally.
C5_Witness ==
    \E t \in Threads, e \in Events :
        /\ estate[e] = "failed" /\ posts[e] = 1
        /\ pc[t] = "flush_ret" /\ e \in snap[t] /\ ret[t] = "returned"

\* ------------------------------------------------------------------------
\* Claims about the wrappers and the monitor scope (WrapSpec)
\* ------------------------------------------------------------------------
IsSend(s) == s.op = "send"
IsOrig(s) == s.op = "orig"
Sends(trace) == SelectSeq(trace, IsSend)
Origs(trace) == SelectSeq(trace, IsOrig)
MetaValues(event, k) == {kv[2] : kv \in {x \in event.metadata : x[1] = k}}

WrappedInvocation == last.kind = "invoke" /\ last.wrapped
\* The call the wrapper delegated to ran and raised / returned a response.
UnderlyingRaised ==
    /\ WrappedInvocation
    /\ Len(Origs(last.trace)) >= 1
    /\ Origs(last.trace)[1].res.kind = "raise"
UnderlyingReturned ==
    /\ WrappedInvocation
    /\ Len(Origs(last.trace)) >= 1
    /\ Origs(last.trace)[1].ran
    /\ Origs(last.trace)[1].res.kind = "return"

\* An event that reports exception e as the claims describe it.
ReportsError(event, e) ==
    /\ event.status = "error"
    /\ event.error_type = e.cls
    /\ MetaValues(event, "error_message") = {e.msg}

\* C6 (as claimed): whenever the underlying call of a wrapped entry point
\* raises e, exactly one event is submitted, it has status "error", error_type
\* the class name of e and metadata.error_message str(e), and e propagates to
\* the caller after the event was queued.
C6_ErrorEventOnEveryRaise ==
    UnderlyingRaised =>
        LET e == Origs(last.trace)[1].res.exc
            ev == Sends(last.trace)
        IN /\ Len(ev) = 1
           /\ ReportsError(ev[1].event, e)
           /\ last.res = Raised(e)

\* C7 (as claimed): for every exception that propagates out of the body of a
\* monitor scope, the event submitted for the scope has status "error",
\* error_type the exception's class name and metadata.error_message its
\* message, and the exception is not suppressed.
C7_MonitorErrorEvent ==
    last.kind = "monitor" /\ last.body.kind = "raise" =>
        LET ev == Sends(last.trace) IN
        /\ Len(ev) = 1
        /\ ReportsError(ev[1].event, last.body.exc)
        /\ last.res = last.body

\* C8 (as claimed): a failure inside the telemetry path never changes what
\* the host observes: when the underlying call of a wrapped entry point
\* returns a response the wrapper returns that response, and when the body of
\* a monitor scope completes normally the scope exits normally.
C8_TelemetryFailureContained ==
    /\ UnderlyingReturned => last.res = Origs(last.trace)[1].res
    /\ last.kind = "monitor" /\ last.body = Exit => last.res = Exit

\* C9 (as claimed): after one or more applications of an installer, each
\* invocation of the entry point calls the original callable of that entry
\* point exactly once and submits exactly one event, and the second and later
\* applications leave the installed entry points unchanged.
C9_IdempotentWrapping ==
    /\ WrappedInvocation =>
          /\ Len(Origs(last.trace)) = 1
          /\ Origs(last.trace)[1].name = last.ep
          /\ Len(Sends(last.trace)) = 1
    /\ last.kind = "instrument" /\ last.nth >= 2 => last.after = last.before

\* The prompt and completion counts a vendor's response carries in its usage
\* object, under the vendor's own names.
CarriesUsage(ep, resp) ==
    CASE ep = "openai.create" -> resp = RespOpenAI
      [] ep = "anthropic.create" -> resp = RespAnthropic
      [] OTHER -> resp = RespGemini
PromptCount(resp) ==
    CASE resp = RespOpenAI -> resp.attrs.usage.attrs.prompt_tokens
      [] resp = RespAnthropic -> resp.attrs.usage.attrs.input_tokens
      [] OTHER -> resp.attrs.usage_metadata.attrs.prompt_token_count
CompletionCount(resp) ==
    CASE resp = RespOpenAI -> resp.attrs.usage.attrs.completion_tokens
      [] resp = RespAnthropic -> resp.attrs.usage.attrs.output_tokens
      [] OTHER -> resp.attrs.usage_metadata.attrs.candidates_token_count

\* C10 (as claimed): whenever the underlying call of a wrapped entry point
\* returns a response, exactly one event is submitted, with status "success",
\* the token counts of the response's usage object, the adapter's vendor tag
\* as provider, and the response is returned unchanged.
C10_SuccessEvent ==
    UnderlyingReturned =>
        LET resp == Origs(last.trace)[1].res.value
            ev == Sends(last.trace)
        IN /\ Len(ev) = 1
           /\ ev[1].event.status = "success"
           /\ ev[1].event.provider = VendorOf(last.ep)
           /\ CarriesUsage(last.ep, resp) =>
                 /\ ev[1].event.input_tokens = PromptCount(resp)
                 /\ ev[1].event.output_tokens = CompletionCount(resp)
           /\ last.res = Returned(resp)

\* C14 (as claimed): every invocation of a wrapped entry point delegates
\* exactly once to the original callable of that same entry point, and that
\* original runs as it would unwrapped (awaited when it is asynchronous).
C14_DelegatesToOwnOriginal ==
    WrappedInvocation =>
        /\ Len(Origs(last.trace)) = 1
        /\ Origs(last.trace)[1].name = last.ep
        /\ Origs(last.trace)[1].ran

\* The asynchronous variant of a wrapper was invoked.
AsyncInvocation == WrappedInvocation /\ entry[last.ep].isasync

\* C16 (as claimed): in the asynchronous variant of a wrapper every event of
\* the invocation is submitted after the delegated call has completed, with
\* status "success" if that call returned and "error" if it raised.
C16_AsyncEventAfterCompletion ==
    AsyncInvocation =>
        \A i \in 1..Len(last.trace) :
            IsSend(last.trace[i]) =>
                /\ \E j \in 1..(i - 1) :
                      IsOrig(last.trace[j]) /\ last.trace[j].ran
                /\ Origs(last.trace)[1].res.kind = "return" =>
                      last.trace[i].event.status = "success"
                /\ Origs(last.trace)[1].res.kind = "raise" =>
                      last.trace[i].event.status = "error"

\* What a sequence of tracker calls wrote last, read off the calls themselves.
IsSetUsage(o) == o.op = "set_usage"
IsSetRetry(o) == o.op = "set_retry"
IsSetMetadata(o) == o.op = "set_metadata"
LastOf(calls) == calls[Len(calls)]
WrittenInput(script) ==
    LET c == SelectSeq(script, IsSetUsage)
    IN IF c = <<>> THEN 0 ELSE LastOf(c).input_tokens
WrittenOutput(script) ==
    LET c == SelectSeq(script, IsSetUsage)
    IN IF c = <<>> THEN 0 ELSE LastOf(c).output_tokens
WrittenRetry(script) ==
    LET c == SelectSeq(script, IsSetRetry)
    IN IF c = <<>> THEN 0 ELSE LastOf(c).count
WrittenMetadata(script) ==
    { <<script[i].key, script[i].value>> :
        i \in { n \in 1..Len(script) :
                  /\ IsSetMetadata(script[n])
                  /\ \A m \in (n + 1)..Len(script) :
                        IsSetMetadata(script[m]) => script[m].key # script[n].key } }

\* The part of C17 that does not concern metadata.
MonitorEventCounts ==
    LET ev == Sends(last.trace) IN
    /\ Len(ev) = 1
    /\ ev[1].event.input_tokens = WrittenInput(last.script)
    /\ ev[1].event.output_tokens = WrittenOutput(last.script)
    /\ ev[1].event.retry_count = WrittenRetry(last.script)

\* C17 (as claimed): every monitor scope submits exactly one event at exit,
\* normal or exceptional, whose input_tokens, output_tokens, retry_count and
\* metadata are the values last written through the tracker (0, 0, 0 and an
\* empty mapping when the tracker was never called).
C17_MonitorEventAsWritten ==
    last.kind = "monitor" =>
        /\ MonitorEventCounts
        /\ Sends(last.trace)[1].event.metadata = WrittenMetadata(last.script)

\* C17 (amended): as above, except that when the body ends by raising an
\* Exception the event's metadata is what the tracker wrote with the key
\* error_message set to the exception's message (replacing a value the body
\* wrote under that key).
C17_MonitorEventAmended ==
    last.kind = "monitor" =>
        /\ MonitorEventCounts
        /\ Sends(last.trace)[1].event.metadata =
              IF last.body.kind = "raise" /\ last.body.exc.isException
              THEN {kv \in WrittenMetadata(last.script) : kv[1] # "error_message"}
                   \cup {<<"error_message", last.body.exc.msg>>}
              ELSE WrittenMetadata(last.script)

\* C17 witness: a scope whose body wrote the same metadata key twice and then
\* raised; its one event carries the later value and the error message.
C17_Witness ==
    /\ last.kind = "monitor"
    /\ last.script = <<SetMetadata("k", "v"), SetMetadata("k", "w")>>
    /\ last.body = Raised(ConnErr)
    /\ Len(Sends(last.trace)) = 1
    /\ Sends(last.trace)[1].event.metadata =
          {<<"k", "w">>, <<"error_message", "connection refused">>}

\* The underlying call returned a response that gives no usage value.
NoUsageGiven ==
    /\ UnderlyingReturned
    /\ Origs(last.trace)[1].res.value \in {RespNoUsage, RespUsageNone}

\* C18 (as claimed): every event handed to the dispatcher, by an adapter on
\* success, by _handle_exception or by a monitor scope, carries input_tokens
\* and output_tokens that are non-negative integers, 0 when the response
\* gives no usage value.
C18_TokenCountsNonNegative ==
    last.kind \in {"invoke", "monitor"} =>
        \A i \in 1..Len(last.trace) :
            IsSend(last.trace[i]) =>
                LET ev == last.trace[i].event IN
                /\ "input_tokens" \in DOMAIN ev
                /\ "output_tokens" \in DOMAIN ev
                /\ ev.input_tokens \in Nat
                /\ ev.output_tokens \in Nat
                /\ last.kind = "invoke" /\ NoUsageGiven =>
                      ev.input_tokens = 0 /\ ev.output_tokens = 0

\* A workflow was given: neither left out (None) nor empty.
Given(x) == x # NoStr /\ x # <<>>

\* The names the claim expects for the callsite files of the model.
ExpectedName(file) ==
    CASE file = <<"app", "/", "billing", ".", "py">> -> <<"billing">>
      [] file = <<"test_script", ".", "py">> -> <<"test_script">>
      [] file = <<"pkg", ".", "v2", "/", "run">> -> <<"run">>

\* The workflow passed explicitly to the call the application made: to the
\* instrument_* call that installed the wrapper, or to monitor.
ExplicitWorkflow ==
    IF last.kind = "invoke" THEN entry[last.ep].workflow ELSE last.workflow

Draining == \E u \in Threads : pc[u] \in {"flush_wait", "flush_new"}

\* C19 (as claimed): an event whose submit runs while a flush is draining is
\* dropped and the call returns normally; a dropped event stays dropped and
\* never gets a delivery attempt.
C19_DroppedWhileDraining ==
    [][ /\ \A t \in Threads :
              pc[t] = "submit_rd" /\ pc'[t] = "submit_ret" /\ Draining =>
                  ret'[t] = "returned" /\ estate'[cur[t]] = "dropped"
        /\ \A e \in Events :
              estate[e] = "dropped" => estate'[e] = "dropped" /\ posts'[e] = 0
      ]_vars

\* C20: under fair scheduling of the workers and POSTs that end, every event
\* a pool accepted gets its one delivery attempt and the attempt ends, whatever
\* became of the pool (shut down by a flush, or replaced as the client's pool
\* by an overlapping flush); no event is ever attempted twice.
C20_AcceptedAttemptedOnce ==
    /\ [](\A e \in Events :
            /\ posts[e] <= 1
            /\ Accepted(e) /\ estate[e] # "queued" => posts[e] = 1)
    /\ \A e \in Events : Accepted(e) ~> (Finished(e) /\ posts[e] = 1)

\* C20 witness: an event is being attempted by a pool that is not shut down
\* and that the client no longer refers to: an overlapping flush replaced it.
C20_Witness ==
    \E p \in Pools, e \in Events :
        /\ p # executor /\ ~shut[p]
        /\ e \in inflight[p] /\ posts[e] = 1

\* C15 (as claimed): at every moment at most max_workers delivery attempts of
\* the client are in flight, over all the pools it has created.
C15_AtMostFiveInFlight ==
    Cardinality(UNION {inflight[p] : p \in Pools}) <= max_workers

\* Some serverless marker is set in the environment, to any value.
MarkerSet == \E k \in Markers : env[k] # NoStr
\* Some serverless marker has a non-empty value.
MarkerNonEmpty == \E k \in Markers : env[k] # NoStr /\ env[k] # <<>>

\* Every event a pool accepted has finished its delivery attempt.
AllAttemptsFinished == \A e \in Events : Accepted(e) => Finished(e)

\* C12 (as claimed): the client's flush runs at normal process exit exactly
\* when none of the serverless markers was set at construction: with none set,
\* the process ends after the exit flush, with every accepted event finished;
\* with one set, no flush runs that the application did not call.
C12_DrainAtExitUnlessMarkerSet ==
    /\ ~MarkerSet /\ phase = "ended" =>
          exitflush = "done" /\ AllAttemptsFinished
    /\ MarkerSet => exitflush = "none"

\* C12 (amended): as above with "set" read as "set to a non-empty value": a
\* marker that is set to the empty string counts as not set.
C12_DrainAtExitUnlessMarkerNonEmpty ==
    /\ atexit <=> ~MarkerNonEmpty
    /\ ~MarkerNonEmpty /\ phase = "ended" =>
          exitflush = "done" /\ AllAttemptsFinished
    /\ MarkerNonEmpty => exitflush = "none"

\* C12 witness: a process without markers, whose application never called
\* flush, has ended after the flush run at exit, with an event attempted.
C12_Witness ==
    /\ ~MarkerNonEmpty
    /\ phase = "ended" /\ exitflush = "done"
    /\ \E e \in Events : Finished(e)
    /\ nflush = 0

\* ------------------------------------------------------------------------
\* Claims about the command line
\* ------------------------------------------------------------------------

\* C13: the command line exits with a non-zero code and makes no network
\* request when MYNITOR_API_KEY is unset, and the ping command exits with
\* code 0 exactly when the collector answered 200 or 201: after any other
\* status, and after a network error, its exit code is not 0.
C13_CliExitCodes ==
    /\ cli.api_key = NoStr =>
          /\ cli.requests = <<>>
          /\ cli.pc \in {"start", "exited"}
          /\ cli.pc = "exited" => cli.code # 0
    /\ cli.pc = "exited" /\ Len(cli.argv) >= 2 /\ cli.argv[2] = "ping" =>
          (cli.code = 0 <=>
              /\ cli.answer.kind = "response"
              /\ cli.answer.status_code \in {200, 201})

\* C13 witness: a ping with a key has sent its one request, was answered 201,
\* and has exited with code 0.
C13_Witness ==
    /\ cli.pc = "exited"
    /\ cli.command = "ping"
    /\ Truthy(cli.api_key)
    /\ Len(cli.requests) = 1
    /\ cli.answer = [kind |-> "response", status_code |-> 201]
    /\ cli.code = 0

====
